---- MODULE Spec2Model ----
(***************************************************************************)
(* Model of backend/agent_agui.py: the lazily created agent singleton, the *)
(* AG-UI app factory with its initial state, and the three tool adapters   *)
(* that run on that state.                                                 *)
(*                                                                         *)
(* Python values are modelled as follows.  A str is a TLA+ string (TLC     *)
(* treats strings as sequences of characters: Len, \o and SubSeq apply).   *)
(* A dict is a function from keys to values, a list is a sequence, None is *)
(* the value None below.  Every coroutine and every synchronous call is a  *)
(* task with a program counter; the asyncio event loop runs one task at a  *)
(* time and switches tasks only where the running one awaits.              *)
(***************************************************************************)
EXTENDS Integers, Sequences, FiniteSets, TLC

VARIABLES
    _agent,         \* module-level singleton, agent_agui.py:262
    create_count,   \* history: number of create_agui_agent() calls made
    assign_count,   \* history: number of assignments to _agent
    returned,       \* history: the agents get_agui_agent() has returned
    utc_day,        \* the UTC clock: the day, in days since 1970-01-01
    utc_sec,        \* the UTC clock: the second within the day
    created_at,     \* history: per state object, the clock reading it was made from
    rejected,       \* history: the tool calls whose arguments failed validation
    states,         \* the AgentState objects, one per create_initial_state()
    apps,           \* the AGUIApp objects built by create_agui_app()
    runs,           \* the agent runs (requests/sessions) the apps have served
    task,           \* the calls in progress: one record per task slot
    running,        \* the task the event loop is running, 0 when it is idle
    call_log,       \* history: per state object, the executors' results in call order
    emitted,        \* history: per state object, the snapshots handed out so far
    mutable_deps,   \* exercise 4: the MutableDeps objects
    tool_call,      \* exercise 4: the do_something call in progress
    action_log,     \* exercise 4 history: per MutableDeps object, the actions called
    all_messages,   \* exercise 5: result.all_messages()
    extraction      \* exercise 5: the extract_tool_calls call

\* the variables of agent_agui.py, and those of the exercises
agui_vars == <<_agent, create_count, assign_count, returned, utc_day, utc_sec,
               created_at, rejected, states, apps, runs, task, running, call_log,
               emitted>>
exercise_vars == <<mutable_deps, tool_call, action_log, all_messages, extraction>>

vars == <<agui_vars, exercise_vars>>

-----------------------------------------------------------------------------
(* Bounds of the model *)

MaxTasks == 2
MaxApps == 1
MaxRuns == 2
MaxCalls == 2
MaxItems == 3

Tasks == 1..MaxTasks

-----------------------------------------------------------------------------
(* Python values *)

None == "<None>"

\* `_agent = None`: the singleton slot before its first initialization.
NoAgent == 0

Digits == "0123456789"

\* str(n) / f"{n}" of a non-negative int: its decimal digits.
RECURSIVE IntToStr(_)
IntToStr(n) ==
    IF n < 10 THEN SubSeq(Digits, n + 1, n + 1)
    ELSE IntToStr(n \div 10) \o SubSeq(Digits, (n % 10) + 1, (n % 10) + 1)

\* int(s) of a string of decimal digits
DigitValue(c) == CHOOSE i \in 0..9 : SubSeq(Digits, i + 1, i + 1) = c

RECURSIVE StrToInt(_)
StrToInt(s) ==
    IF Len(s) = 0 THEN 0
    ELSE 10 * StrToInt(SubSeq(s, 1, Len(s) - 1)) + DigitValue(SubSeq(s, Len(s), Len(s)))

IsDigits(s) ==
    \A i \in 1..Len(s) : \E j \in 1..Len(Digits) : SubSeq(s, i, i) = SubSeq(Digits, j, j)

\* `sub in s`
Contains(s, sub) ==
    \E i \in 1..(Len(s) - Len(sub) + 1) : SubSeq(s, i, i + Len(sub) - 1) = sub

\* s.startswith(prefix)
StartsWith(s, prefix) ==
    Len(prefix) <= Len(s) /\ SubSeq(s, 1, Len(prefix)) = prefix

LowerCase == "abcdefghijklmnopqrstuvwxyz"
UpperCase == "ABCDEFGHIJKLMNOPQRSTUVWXYZ"

\* one character of str.upper(): letters a-z map to A-Z, the rest is kept
UpperChar(c) ==
    IF \E i \in 1..Len(LowerCase) : SubSeq(LowerCase, i, i) = c
    THEN LET i == CHOOSE j \in 1..Len(LowerCase) : SubSeq(LowerCase, j, j) = c
         IN  SubSeq(UpperCase, i, i)
    ELSE c

\* s.upper()
RECURSIVE Upper(_)
Upper(s) ==
    IF Len(s) = 0 THEN ""
    ELSE UpperChar(SubSeq(s, 1, 1)) \o Upper(SubSeq(s, 2, Len(s)))

\* s[:n]; Uncut is the variant s
Uncut(s, n) == s
Prefix(s, n) == SubSeq(s, 1, IF Len(s) < n THEN Len(s) ELSE n)

\* d.get(key, default)
DictGet(d, key, default) == IF key \in DOMAIN d THEN d[key] ELSE default

-----------------------------------------------------------------------------
(* datetime: strftime("%Y-%m-%d") of a UTC day, and timedelta(days=7) *)

\* timedelta(days=7)
DaysInWeek == 7

IsLeap(y) == (y % 4 = 0 /\ y % 100 # 0) \/ y % 400 = 0

YearLen(y) == IF IsLeap(y) THEN 366 ELSE 365

MonthLen(y, m) ==
    IF m = 2 THEN (IF IsLeap(y) THEN 29 ELSE 28)
    ELSE IF m \in {4, 6, 9, 11} THEN 30 ELSE 31

\* the year of day d (days since 1 January of year y; a datetime counts from
\* 1970-01-01 here) and the day within it
RECURSIVE YearOf(_, _)
YearOf(d, y) ==
    IF d < YearLen(y) THEN <<y, d>> ELSE YearOf(d - YearLen(y), y + 1)

RECURSIVE MonthOf(_, _, _)
MonthOf(d, y, m) ==
    IF d < MonthLen(y, m) THEN <<m, d + 1>> ELSE MonthOf(d - MonthLen(y, m), y, m + 1)

\* zero-padded decimal of width w
RECURSIVE Pad(_, _)
Pad(s, w) == IF Len(s) >= w THEN s ELSE Pad("0" \o s, w)

\* day.strftime("%Y-%m-%d")
FormatDate(day) ==
    LET yd == YearOf(day, 1970)
        md == MonthOf(yd[2], yd[1], 1)
    IN  Pad(IntToStr(yd[1]), 4) \o "-" \o Pad(IntToStr(md[1]), 2)
            \o "-" \o Pad(IntToStr(md[2]), 2)

\* 2025-12-28: a week from it lies in the next month and the next year
FirstDay == 20450

\* A datetime is an instant: seconds since 1970-01-01T00:00:00 UTC.
SecondsPerDay == 86400

\* datetime.now(tz=UTC)
Now == utc_day * SecondsPerDay + utc_sec

\* timedelta(days=...), a duration in seconds; timedelta_hours is the variant
\* timedelta(hours=...)
timedelta_hours(days) == days * 3600
timedelta(days) == days * SecondsPerDay

\* the date() of an instant; NearestDay is the variant that rounds the instant
\* to the nearest midnight
NearestDay(instant) == (instant + (SecondsPerDay \div 2)) \div SecondsPerDay
DayOf(instant) == instant \div SecondsPerDay

\* instant.strftime("%Y-%m-%d"): the time of day is dropped
strftime(instant) == FormatDate(DayOf(instant))

\* the names strftime("%A") gives, in the order of date.weekday()
WeekdayNames ==
    << "Monday", "Tuesday", "Wednesday", "Thursday", "Friday", "Saturday", "Sunday" >>

\* date.weekday() of a day: 1970-01-01 was a Thursday
Weekday(day) == (day + 3) % DaysInWeek

\* instant.strftime("%A")
strftime_A(instant) == WeekdayNames[Weekday(DayOf(instant)) + 1]

-----------------------------------------------------------------------------
(* models.py: the tool input records, and the executors' result dicts *)

\* A CalendarReminderInput, with the fields the adapter reads and one it does
\* not; action_items is a list of ActionItem.
ActionItem == [task |-> "ship", owner |-> "ana", priority |-> "medium"]

RECURSIVE Repeat(_, _)
Repeat(x, n) == IF n = 0 THEN <<>> ELSE <<x>> \o Repeat(x, n - 1)

CalendarReminderInput ==
    { [meeting_title |-> "Q3 sync", meeting_type |-> "planning",
       meeting_summary |-> "plans", key_points |-> <<"budget">>,
       action_items |-> Repeat(ActionItem, n),
       reminder_date |-> "2026-01-02"] : n \in 0..MaxItems }

\* s repeated n times
RECURSIVE RepeatStr(_, _)
RepeatStr(s, n) == IF n = 0 THEN "" ELSE s \o RepeatStr(s, n - 1)

\* root causes of 100 and of 104 characters
FullCause == RepeatStr(Digits, 10)
LongCause == FullCause \o "tail"

IncidentReportInput ==
    { [incident_title |-> "API down", severity |-> rc.sev, start_time |-> "10:15",
       root_cause |-> rc.cause, business_impact |-> [description |-> "orders lost"],
       timeline |-> <<>>, resolution_steps |-> <<"rollback">>] :
         rc \in { [sev |-> "critical", cause |-> "bad deploy"], [sev |-> "low", cause |-> ""],
                  [sev |-> "high", cause |-> LongCause],
                  [sev |-> "medium", cause |-> FullCause] } }

OptionConsidered == [option |-> "postgres", pros |-> <<>>, cons |-> <<>>]

\* a status for each number of options
StatusWith(n) ==
    CASE n = 0 -> "rejected"
      [] n = 1 -> "proposed"
      [] n = 2 -> "accepted"
      [] n = 3 -> "superseded"
      [] OTHER -> "deprecated"

DecisionRecordInput ==
    { [decision_title |-> "Use queue", decision_date |-> "2026-01-02",
       status |-> StatusWith(n), context |-> "load",
       options_considered |-> Repeat(OptionConsidered, n),
       decision |-> "kafka", rationale |-> "throughput"] : n \in 0..MaxItems }

ToolNames ==
    {"create_calendar_reminder", "generate_incident_report", "create_decision_record"}

\* one input of each model, for the runs whose subject is not the message text
CoreInputsOf(tool) ==
    CASE tool = "create_calendar_reminder" ->
            { i \in CalendarReminderInput : Len(i.action_items) = 1 }
      [] tool = "generate_incident_report" ->
            { i \in IncidentReportInput : i.severity = "critical" }
      [] tool = "create_decision_record" ->
            { i \in DecisionRecordInput : i.status = "accepted" }

\* the input model of each adapter (its input_data parameter)
InputsOf(tool) ==
    CASE tool = "create_calendar_reminder" -> CalendarReminderInput
      [] tool = "generate_incident_report" -> IncidentReportInput
      [] tool = "create_decision_record" -> DecisionRecordInput

\* the class of each executor object: `_calendar_tool = CalendarTool()` ...
ToolClass(executor) ==
    CASE executor = "_calendar_tool" -> "CalendarTool"
      [] executor = "_incident_tool" -> "IncidentTool"
      [] executor = "_decision_tool" -> "DecisionRecordTool"

\* the executor object each adapter calls; CalendarExecutor is the variant in
\* which every adapter calls _calendar_tool
CalendarExecutor(tool) == "_calendar_tool"
ExecutorOf(tool) ==
    CASE tool = "create_calendar_reminder" -> "_calendar_tool"
      [] tool = "generate_incident_report" -> "_incident_tool"
      [] tool = "create_decision_record" -> "_decision_tool"

\* The fields of each input model that have no default: a record needs them all.
RequiredFields(tool) ==
    CASE tool = "create_calendar_reminder" ->
            {"meeting_title", "meeting_type", "meeting_summary", "key_points",
             "action_items", "reminder_date"}
      [] tool = "generate_incident_report" ->
            {"incident_title", "severity", "start_time", "root_cause",
             "business_impact", "timeline", "resolution_steps"}
      [] tool = "create_decision_record" ->
            {"decision_title", "decision_date", "status", "context",
             "options_considered", "decision", "rationale"}

\* The Literal[...] types of the input models.
MeetingTypes ==
    {"standup", "planning", "brainstorm", "review", "client_call", "interview",
     "status_update", "retrospective", "other"}
Severities == {"critical", "high", "medium", "low"}
DecisionStatuses == {"proposed", "accepted", "rejected", "deprecated", "superseded"}
Priorities == {"high", "medium", "low"}

\* an ActionItem as the caller may give it: task and owner are required,
\* priority has a default
ConformsItem(item) ==
    /\ {"task", "owner"} \subseteq DOMAIN item
    /\ "priority" \in DOMAIN item => item["priority"] \in Priorities

\* rec has every required field of the tool's input model, and its values lie
\* in the model's enumerations
Conforms(tool, rec) ==
    /\ RequiredFields(tool) \subseteq DOMAIN rec
    /\ CASE tool = "create_calendar_reminder" ->
              /\ rec["meeting_type"] \in MeetingTypes
              /\ \A i \in 1..Len(rec["action_items"]) : ConformsItem(rec["action_items"][i])
         [] tool = "generate_incident_report" -> rec["severity"] \in Severities
         [] tool = "create_decision_record" -> rec["status"] \in DecisionStatuses

\* Building the input model from the arguments of a tool call raises
\* ValidationError unless the arguments conform; AcceptsAll is the variant of a
\* model without constraints.
AcceptsAll(tool, raw) == TRUE
Validates(tool, raw) == Conforms(tool, raw)

\* ActionItem(**item): priority defaults to "medium"
BuildItem(item) ==
    [task |-> item["task"], owner |-> item["owner"],
     priority |-> DictGet(item, "priority", "medium")]

\* the input model built from conforming arguments: defaults are filled in
BuildInput(tool, raw) ==
    IF tool = "create_calendar_reminder" /\ "action_items" \in DOMAIN raw
    THEN [raw EXCEPT !["action_items"] =
             [i \in 1..Len(raw["action_items"]) |-> BuildItem(raw["action_items"][i])]]
    ELSE raw

\* rec without one of its fields
Without(rec, field) == [k \in DOMAIN rec \ {field} |-> rec[k]]

\* What an executor's execute() may hand back: a free-form dict, with or
\* without the status and message keys.
ResultDicts ==
    { [status |-> "success"],
      [status |-> "error", message |-> "disk full"],
      [status |-> "error"],
      [message |-> "no status"] }

\* execute() either returns a dict or raises.
ExecutorOutcomes ==
    { [kind |-> "return", value |-> d] : d \in ResultDicts } \cup { [kind |-> "raise"] }

-----------------------------------------------------------------------------
(* AgentState and the statements of the adapters that change it *)

\* create_initial_state(), with `now` the one clock reading it takes
create_initial_state(now) ==
    [ tool_results |-> <<>>,
      current_tool |-> None,
      processing_status |-> "idle",
      current_date |-> strftime(now),
      one_week_from_now |-> strftime(now + timedelta(DaysInWeek)) ]

\* state.current_tool = "<adapter>"; state.processing_status = "executing";
\* MarkStatusOnly is the variant without the first statement, MarkToolOnly
\* the variant without the second
MarkStatusOnly(state, tool) == [state EXCEPT !.processing_status = "executing"]
MarkToolOnly(state, tool) == [state EXCEPT !.current_tool = tool]
MarkRunning(state, tool) ==
    [state EXCEPT !.current_tool = tool, !.processing_status = "executing"]

\* state.tool_results.append(result); PrependResult is the variant
\* state.tool_results.insert(0, result), ReplaceResults the variant
\* state.tool_results = [result]
PrependResult(state, result) ==
    [state EXCEPT !.tool_results = <<result>> \o @]
ReplaceResults(state, result) ==
    [state EXCEPT !.tool_results = <<result>>]
AppendResult(state, result) ==
    [state EXCEPT !.tool_results = Append(@, result)]

\* state.current_tool = None; ClearKeepsTool is the variant without the
\* statement, ClearAndIdle the variant that also sets
\* state.processing_status = "idle"
ClearKeepsTool(state) == state
ClearAndIdle(state) ==
    [state EXCEPT !.current_tool = None, !.processing_status = "idle"]
ClearTool(state) == [state EXCEPT !.current_tool = None]

\* input_data.model_dump(): a dict holding every field of the input record
dump_input(input_data) == [k \in DOMAIN input_data |-> input_data[k]]

\* state.model_dump(): a new dict holding a copy of every field of the state;
\* model_dump_stale is the variant that dumps the state as it was before the
\* last append
model_dump_stale(state) ==
    [ tool_results |-> SubSeq(state.tool_results, 1, Len(state.tool_results) - 1),
      current_tool |-> state.current_tool,
      processing_status |-> state.processing_status,
      current_date |-> state.current_date,
      one_week_from_now |-> state.one_week_from_now ]
model_dump(state) ==
    [ tool_results |-> [i \in 1..Len(state.tool_results) |-> state.tool_results[i]],
      current_tool |-> state.current_tool,
      processing_status |-> state.processing_status,
      current_date |-> state.current_date,
      one_week_from_now |-> state.one_week_from_now ]

\* add_date_context(ctx): the instructions text built from the state and from
\* the clock reading `now` the function takes itself
add_date_context(state, now) ==
    LET current_day == strftime_A(now)
    IN  "**CURRENT DATE/TIME CONTEXT:**\n- Today is " \o current_day \o ", "
            \o state.current_date \o "\n- One week from now: "
            \o state.one_week_from_now

-----------------------------------------------------------------------------
(* The return message each adapter builds for the LLM *)

\* result.get('message', 'Unknown error'); FailureTextWrongKey is the variant
\* that reads the key 'error'
FailureTextWrongKey(result) == DictGet(result, "error", "Unknown error")
FailureText(result) == DictGet(result, "message", "Unknown error")

\* the message of create_calendar_reminder; CalendarMessageKeyPoints is the
\* variant that counts key_points
CalendarMessageKeyPoints(input_data, result) ==
    IF result["status"] = "success"
    THEN "Created calendar reminder '" \o input_data.meeting_title \o "' "
         \o "for " \o input_data.reminder_date \o " with "
         \o IntToStr(Len(input_data.key_points)) \o " action items."
    ELSE "Failed to create calendar reminder: " \o FailureText(result)
CalendarMessage(input_data, result) ==
    IF result["status"] = "success"
    THEN "Created calendar reminder '" \o input_data.meeting_title \o "' "
         \o "for " \o input_data.reminder_date \o " with "
         \o IntToStr(Len(input_data.action_items)) \o " action items."
    ELSE "Failed to create calendar reminder: " \o FailureText(result)

\* root_cause[:100]
RootCauseCut == 100

\* the message of generate_incident_report
IncidentMessage(input_data, result) ==
    IF result["status"] = "success"
    THEN "Generated incident report for '" \o input_data.incident_title \o "' "
         \o "(Severity: " \o Upper(input_data.severity) \o "). "
         \o "Root cause: " \o Prefix(input_data.root_cause, RootCauseCut) \o "..."
    ELSE "Failed to generate incident report: " \o FailureText(result)

\* the message of create_decision_record; DecisionMessageWrongField is the
\* variant that names the decision in place of its title, and
\* DecisionMessageChosen the variant that names it in place of the status
DecisionMessageChosen(input_data, result) ==
    IF result["status"] = "success"
    THEN "Created decision record for '" \o input_data.decision_title \o "' "
         \o "(" \o IntToStr(Len(input_data.options_considered))
         \o " options considered, decision: " \o input_data.decision \o ")."
    ELSE "Failed to create decision record: " \o FailureText(result)
DecisionMessageWrongField(input_data, result) ==
    IF result["status"] = "success"
    THEN "Created decision record for '" \o input_data.decision \o "' "
         \o "(" \o IntToStr(Len(input_data.options_considered))
         \o " options considered, decision: " \o input_data.status \o ")."
    ELSE "Failed to create decision record: " \o FailureText(result)
DecisionMessage(input_data, result) ==
    IF result["status"] = "success"
    THEN "Created decision record for '" \o input_data.decision_title \o "' "
         \o "(" \o IntToStr(Len(input_data.options_considered))
         \o " options considered, decision: " \o input_data.status \o ")."
    ELSE "Failed to create decision record: " \o FailureText(result)

ReturnMessage(tool, input_data, result) ==
    CASE tool = "create_calendar_reminder" -> CalendarMessage(input_data, result)
      [] tool = "generate_incident_report" -> IncidentMessage(input_data, result)
      [] tool = "create_decision_record" -> DecisionMessage(input_data, result)

\* ToolReturn(return_value=..., metadata=[StateSnapshotEvent(...)])
ToolReturn(return_message, state) ==
    [ return_value |-> return_message,
      metadata |-> << [type |-> "STATE_SNAPSHOT", snapshot |-> model_dump(state)] >> ]

-----------------------------------------------------------------------------
(* Tasks and the event loop *)

IdleTask ==
    [ fn |-> "idle", pc |-> "idle", agent |-> NoAgent, state |-> 0, run |-> 0,
      input_data |-> <<>>, result |-> <<>>, executed |-> <<>>, exc |-> None,
      len_before |-> 0, failed_before |-> 0, ret |-> <<>>,
      arg |-> <<>>, steps |-> <<>> ]

\* The program points at which a function of this module awaits, handing
\* control back to the event loop: the adapters are `async def` but no body
\* holds an await, and get_agui_agent and create_agui_app are synchronous.
\* AwaitExecutor is the variant in which the executor call is awaited.
AwaitExecutor == {"execute"}
AwaitPoints == {}

\* task t may take its next step: it is the running task, or the loop is idle
\* and t is suspended at an await
CanStep(t) ==
    \/ running = t
    \/ running = 0 /\ task[t].pc \in AwaitPoints

\* who runs after the current task has moved to program point pc
After(t, pc) == IF pc \in AwaitPoints THEN 0 ELSE t

\* a new call gets the lowest free slot, when the event loop is idle
Free(t) ==
    /\ running = 0
    /\ task[t].fn = "idle"
    /\ \A u \in Tasks : u < t => task[u].fn # "idle"

\* task t has run the statement at its program point and goes on to pc
Goto(t, pc) ==
    /\ task' = [task EXCEPT ![t].pc = pc, ![t].steps = Append(@, task[t].pc)]
    /\ running' = After(t, pc)

-----------------------------------------------------------------------------
(* get_agui_agent and create_agui_app *)

\* `if _agent is None`; AlwaysInit is the variant without the test
AlwaysInit(agent) == TRUE
NeedsInit(agent) == agent = NoAgent

\* the host calls get_agui_agent()
CallGetAgent(t) ==
    /\ Free(t)
    /\ task' = [task EXCEPT ![t] = [IdleTask EXCEPT !.fn = "get_agui_agent", !.pc = "ga_test"]]
    /\ running' = t
    /\ UNCHANGED <<_agent, create_count, assign_count, returned, utc_day, utc_sec, rejected, states,
                   apps, created_at, runs, call_log, emitted,
                   exercise_vars>>

\* the host calls create_agui_app(), which first calls get_agui_agent()
CallCreateApp(t) ==
    /\ Free(t)
    /\ Len(apps) < MaxApps
    /\ task' = [task EXCEPT ![t] = [IdleTask EXCEPT !.fn = "create_agui_app", !.pc = "ga_test"]]
    /\ running' = t
    /\ UNCHANGED <<_agent, create_count, assign_count, returned, utc_day, utc_sec, rejected, states,
                   apps, created_at, runs, call_log, emitted,
                   exercise_vars>>

\* get_agui_agent: `if _agent is None:`
GetAgentTest(t) ==
    /\ CanStep(t)
    /\ task[t].pc = "ga_test"
    /\ Goto(t, IF NeedsInit(_agent) THEN "ga_create" ELSE "ga_return")
    /\ UNCHANGED <<_agent, create_count, assign_count, returned, utc_day, utc_sec, rejected, states,
                   apps, created_at, runs, call_log, emitted,
                   exercise_vars>>

\* get_agui_agent: `_agent = create_agui_agent()`
GetAgentCreate(t) ==
    /\ CanStep(t)
    /\ task[t].pc = "ga_create"
    /\ create_count' = create_count + 1
    /\ _agent' = create_count + 1
    /\ assign_count' = assign_count + 1
    /\ Goto(t, "ga_return")
    /\ UNCHANGED <<returned, utc_day, utc_sec, rejected, states, apps, created_at, runs, call_log, emitted,
                   exercise_vars>>

\* get_agui_agent: `return _agent`; in create_agui_app the value becomes `agent`
GetAgentReturn(t) ==
    /\ CanStep(t)
    /\ task[t].pc = "ga_return"
    /\ returned' = returned \cup {_agent}
    /\ LET pc == IF task[t].fn = "create_agui_app" THEN "app_state" ELSE "done"
       IN  /\ task' = [task EXCEPT ![t].agent = _agent, ![t].pc = pc]
           /\ running' = After(t, pc)
    /\ UNCHANGED <<_agent, create_count, assign_count, utc_day, utc_sec, rejected, states, apps, created_at, runs, call_log, emitted,
                   exercise_vars>>

\* create_agui_app: `initial_state = create_initial_state()`; the clock is read
CreateInitialState(t) ==
    /\ CanStep(t)
    /\ task[t].pc = "app_state"
    /\ states' = Append(states, create_initial_state(Now))
    /\ created_at' = Append(created_at, Now)
    /\ call_log' = Append(call_log, <<>>)
    /\ emitted' = Append(emitted, <<>>)
    /\ task' = [task EXCEPT ![t].state = Len(states) + 1, ![t].pc = "app_build"]
    /\ running' = After(t, "app_build")
    /\ UNCHANGED <<_agent, create_count, assign_count, returned, utc_day, utc_sec,
                   rejected, apps, runs,
                   exercise_vars>>

\* create_agui_app: `return AGUIApp(agent, deps=StateDeps(initial_state))`
BuildApp(t) ==
    /\ CanStep(t)
    /\ task[t].pc = "app_build"
    /\ apps' = Append(apps, [agent |-> task[t].agent, deps |-> task[t].state])
    /\ Goto(t, "done")
    /\ UNCHANGED <<_agent, create_count, assign_count, returned, utc_day, utc_sec,
                   rejected, created_at, states, runs, call_log, emitted,
                   exercise_vars>>

\* a synchronous call has returned to the host
Return(t) ==
    /\ running = t
    /\ task[t].pc = "done"
    /\ task' = [task EXCEPT ![t] = IdleTask]
    /\ running' = 0
    /\ UNCHANGED <<_agent, create_count, assign_count, returned, utc_day, utc_sec, rejected, states,
                   apps, created_at, runs, call_log, emitted,
                   exercise_vars>>

-----------------------------------------------------------------------------
(* Agent runs: the app serves a request with the deps it was built with *)

\* `state = ctx.deps.state`: the deps of a run are the StateDeps object handed
\* to AGUIApp in create_agui_app
StateOf(r) == apps[runs[r].app].deps

InFlight(r) == \E t \in Tasks : task[t].fn \in ToolNames /\ task[t].run = r

\* the results held by all the state objects together
RECURSIVE SumResults(_)
SumResults(n) == IF n = 0 THEN 0 ELSE Len(states[n].tool_results) + SumResults(n - 1)
TotalResults == SumResults(Len(states))

\* a run slot that serves no request
NoRun == [app |-> 0, status |-> "none", had_failure |-> FALSE]

\* app a starts serving a request: one run of the agent, in the lowest free
\* slot
StartRun(r, a) ==
    /\ running = 0
    /\ a \in 1..Len(apps)
    /\ runs[r].status # "active"
    /\ \A q \in 1..MaxRuns : q < r => runs[q].status = "active"
    /\ runs' = [runs EXCEPT ![r] =
                   [app |-> a, status |-> "active", had_failure |-> FALSE]]
    /\ UNCHANGED <<_agent, create_count, assign_count, returned, utc_day, utc_sec, rejected, states,
                   apps, created_at, task, running, call_log, emitted,
                   exercise_vars>>

\* the run's last model response carried no tool call: the run completes
EndRun(r) ==
    /\ running = 0
    /\ runs[r].status = "active"
    /\ ~InFlight(r)
    /\ runs' = [runs EXCEPT ![r] = NoRun]
    /\ UNCHANGED <<_agent, create_count, assign_count, returned, utc_day, utc_sec, rejected, states,
                   apps, created_at, task, running, call_log, emitted,
                   exercise_vars>>

\* the agent, running r, builds the instructions of its next model request:
\* the framework calls add_date_context with the run's deps
AddDateContext(t, r) ==
    /\ Free(t)
    /\ runs[r].status = "active"
    /\ task' = [task EXCEPT ![t] =
                   [IdleTask EXCEPT !.fn = "add_date_context", !.pc = "done",
                                    !.run = r, !.state = StateOf(r),
                                    !.ret = add_date_context(states[StateOf(r)], Now)]]
    /\ running' = t
    /\ UNCHANGED <<_agent, create_count, assign_count, returned, utc_day, utc_sec,
                   rejected, states, apps, created_at, runs, call_log, emitted,
                   exercise_vars>>

-----------------------------------------------------------------------------
(* The tool adapters: create_calendar_reminder, generate_incident_report,   *)
(* create_decision_record.  The three bodies are the same statements over   *)
(* their own name, executor, input model and message.                       *)

\* the statement after `result = <executor>.execute(...)`: straight on to the
\* append, whatever the result says; RetryOnFailure is the variant that calls
\* the executor once more on a reported failure
RetryOnFailure(result, executed) ==
    IF "status" \in DOMAIN result /\ result["status"] # "success" /\ Len(executed) < 2
    THEN "execute" ELSE "append"
AfterExecute(result, executed) == "append"

\* `if result["status"] == "success":` raises KeyError when the dict has no
\* status key; nothing else in the message part raises.  RaisesOnFailure is
\* the variant that also raises on a reported failure
RaisesOnFailure(result) == "status" \notin DOMAIN result \/ result["status"] # "success"
MessageRaises(result) == "status" \notin DOMAIN result

\* the agent, running r, calls tool adapter `tool` with a validated input
StartTool(t, r, tool, input_data) ==
    /\ Free(t)
    /\ runs[r].status = "active"
    /\ TotalResults < MaxCalls
    /\ task' = [task EXCEPT ![t] =
                   [IdleTask EXCEPT !.fn = tool, !.pc = "mark", !.run = r,
                                    !.state = StateOf(r),
                                    !.input_data = input_data,
                                    !.len_before = Len(states[StateOf(r)].tool_results),
                                    !.failed_before = IF runs[r].had_failure THEN 1 ELSE 0]]
    /\ running' = After(t, "mark")
    /\ UNCHANGED <<_agent, create_count, assign_count, returned, utc_day, utc_sec, rejected, states,
                   apps, created_at, runs, call_log, emitted,
                   exercise_vars>>

\* state.current_tool = "<adapter>"; state.processing_status = "executing"
Mark(t) ==
    /\ CanStep(t)
    /\ task[t].pc = "mark"
    /\ states' = [states EXCEPT ![task[t].state] = MarkRunning(@, task[t].fn)]
    /\ Goto(t, "execute")
    /\ UNCHANGED <<_agent, create_count, assign_count, returned, utc_day, utc_sec, rejected, apps, created_at, runs, call_log, emitted,
                   exercise_vars>>

\* result = <executor>.execute(input_data.model_dump())
Execute(t) ==
    /\ CanStep(t)
    /\ task[t].pc = "execute"
    /\ \E outcome \in ExecutorOutcomes :
        LET executed == Append(task[t].executed, ExecutorOf(task[t].fn))
        IN  IF outcome.kind = "return"
            THEN LET pc == AfterExecute(outcome.value, executed)
                 IN  /\ task' = [task EXCEPT ![t].executed = executed,
                                             ![t].arg = dump_input(task[t].input_data),
                                             ![t].result = outcome.value,
                                             ![t].steps = Append(@, "execute"),
                                             ![t].pc = pc]
                     /\ running' = After(t, pc)
                     /\ call_log' = [call_log EXCEPT ![task[t].state] =
                                        Append(@, outcome.value)]
            ELSE /\ task' = [task EXCEPT ![t].executed = executed,
                                         ![t].arg = dump_input(task[t].input_data),
                                         ![t].steps = Append(@, "execute"),
                                         ![t].exc = "Exception",
                                         ![t].pc = "raised"]
                 /\ running' = t
                 /\ UNCHANGED call_log
    /\ UNCHANGED <<_agent, create_count, assign_count, returned, utc_day, utc_sec, rejected, states,
                   apps, created_at, runs, emitted,
                   exercise_vars>>

\* state.tool_results.append(result)
AppendStep(t) ==
    /\ CanStep(t)
    /\ task[t].pc = "append"
    /\ states' = [states EXCEPT ![task[t].state] = AppendResult(@, task[t].result)]
    /\ Goto(t, "clear")
    /\ UNCHANGED <<_agent, create_count, assign_count, returned, utc_day, utc_sec, rejected, apps, created_at, runs, call_log, emitted,
                   exercise_vars>>

\* state.current_tool = None
Clear(t) ==
    /\ CanStep(t)
    /\ task[t].pc = "clear"
    /\ states' = [states EXCEPT ![task[t].state] = ClearTool(@)]
    /\ Goto(t, "respond")
    /\ UNCHANGED <<_agent, create_count, assign_count, returned, utc_day, utc_sec, rejected, apps, created_at, runs, call_log, emitted,
                   exercise_vars>>

\* build the return message and return ToolReturn(...) with the snapshot
Respond(t) ==
    /\ CanStep(t)
    /\ task[t].pc = "respond"
    /\ IF MessageRaises(task[t].result)
       THEN /\ task' = [task EXCEPT ![t].exc = "KeyError", ![t].pc = "raised",
                                    ![t].steps = Append(@, "respond")]
            /\ UNCHANGED emitted
       ELSE LET ret == ToolReturn(ReturnMessage(task[t].fn, task[t].input_data,
                                               task[t].result),
                                 states[task[t].state])
            IN  /\ task' = [task EXCEPT ![t].steps = Append(@, "respond"),
                                        ![t].ret = ret,
                                        ![t].pc = "returned"]
                /\ emitted' = [emitted EXCEPT ![task[t].state] =
                                  Append(@, ret.metadata[1].snapshot)]
    /\ running' = t
    /\ UNCHANGED <<_agent, create_count, assign_count, returned, utc_day, utc_sec, rejected, states,
                   apps, created_at, runs, call_log,
                   exercise_vars>>

\* the adapter's return value goes back to the agent, which carries on
Returned(t) ==
    /\ running = t
    /\ task[t].pc = "returned"
    /\ runs' = [runs EXCEPT ![task[t].run].had_failure =
                   @ \/ task[t].result["status"] # "success"]
    /\ task' = [task EXCEPT ![t] = IdleTask]
    /\ running' = 0
    /\ UNCHANGED <<_agent, create_count, assign_count, returned, utc_day, utc_sec, rejected, states,
                   apps, created_at, call_log, emitted,
                   exercise_vars>>

\* an exception leaves the adapter and ends the agent run it was called from
Raised(t) ==
    /\ running = t
    /\ task[t].pc = "raised"
    /\ runs' = [runs EXCEPT ![task[t].run] = NoRun]
    /\ task' = [task EXCEPT ![t] = IdleTask]
    /\ running' = 0
    /\ UNCHANGED <<_agent, create_count, assign_count, returned, utc_day, utc_sec, rejected, states,
                   apps, created_at, call_log, emitted,
                   exercise_vars>>

-----------------------------------------------------------------------------
(* exercises/04_dependencies.py: the tracking agent and its MutableDeps *)

\* the MutableDeps objects one behaviour creates, and the calls one object gets
MaxDeps == 2
MaxToolCalls == 3

\* the `action` arguments the model passes
Actions == {"a", "task 1"}

\* MutableDeps(): call_count = 0 and a list of its own from the default factory
MutableDeps == [call_count |-> 0, results |-> <<>>]

\* f"Did: {action} (call #{ctx.deps.call_count})"; ResultZeroBased is the
\* variant that numbers the calls from 0
ResultZeroBased(action, call_count) ==
    "Did: " \o action \o " (call #" \o IntToStr(call_count - 1) \o ")"
ResultText(action, call_count) ==
    "Did: " \o action \o " (call #" \o IntToStr(call_count) \o ")"

NoCall ==
    [pc |-> "idle", deps |-> 0, action |-> "", result |-> "",
     count_before |-> 0, len_before |-> 0]

\* `deps = MutableDeps()`
CreateDeps ==
    /\ tool_call.pc = "idle"
    /\ Len(mutable_deps) < MaxDeps
    /\ mutable_deps' = Append(mutable_deps, MutableDeps)
    /\ action_log' = Append(action_log, <<>>)
    /\ UNCHANGED <<agui_vars, tool_call, all_messages, extraction>>

\* agent.run_sync(..., deps=deps): the run calls do_something(ctx, action) with
\* ctx.deps the object d
CallDoSomething(d, action) ==
    /\ tool_call.pc = "idle"
    /\ d \in 1..Len(mutable_deps)
    /\ Len(action_log[d]) < MaxToolCalls
    /\ tool_call' = [NoCall EXCEPT !.pc = "increment", !.deps = d, !.action = action,
                                  !.count_before = mutable_deps[d].call_count,
                                  !.len_before = Len(mutable_deps[d].results)]
    /\ action_log' = [action_log EXCEPT ![d] = Append(@, action)]
    /\ UNCHANGED <<agui_vars, mutable_deps, all_messages, extraction>>

\* ctx.deps.call_count += 1
Increment ==
    /\ tool_call.pc = "increment"
    /\ mutable_deps' = [mutable_deps EXCEPT ![tool_call.deps].call_count = @ + 1]
    /\ tool_call' = [tool_call EXCEPT !.pc = "format"]
    /\ UNCHANGED <<agui_vars, action_log, all_messages, extraction>>

\* result = f"Did: {action} (call #{ctx.deps.call_count})"
FormatResult ==
    /\ tool_call.pc = "format"
    /\ tool_call' = [tool_call EXCEPT
                        !.result = ResultText(tool_call.action,
                                              mutable_deps[tool_call.deps].call_count),
                        !.pc = "append"]
    /\ UNCHANGED <<agui_vars, mutable_deps, action_log, all_messages, extraction>>

\* ctx.deps.results.append(result)
AppendToResults ==
    /\ tool_call.pc = "append"
    /\ mutable_deps' = [mutable_deps EXCEPT ![tool_call.deps].results =
                           Append(@, tool_call.result)]
    /\ tool_call' = [tool_call EXCEPT !.pc = "return"]
    /\ UNCHANGED <<agui_vars, action_log, all_messages, extraction>>

\* return result
ReturnResult ==
    /\ tool_call.pc = "return"
    /\ tool_call' = [tool_call EXCEPT !.pc = "returned"]
    /\ UNCHANGED <<agui_vars, mutable_deps, action_log, all_messages, extraction>>

\* the agent has the tool's return value and goes on
CallDone ==
    /\ tool_call.pc = "returned"
    /\ tool_call' = NoCall
    /\ UNCHANGED <<agui_vars, mutable_deps, action_log, all_messages, extraction>>

-----------------------------------------------------------------------------
(* exercises/05_full_pattern.py: extract_tool_calls *)

\* A Python value that may be of several types carries its type: a str, an
\* int, a dict (a function from keys to such values) or None.  isinstance
\* reads the type.
PyStr(s) == [type |-> "str", str |-> s]
PyInt(n) == [type |-> "int", int |-> n]
PyDict(d) == [type |-> "dict", items |-> d]      \* {} has the items <<>>
PyNone == [type |-> "NoneType"]

\* d[key] = value
DictSet(d, key, value) ==
    [k \in DOMAIN d \cup {key} |-> IF k = key THEN value ELSE d[k]]

\* json.loads(s), for the JSON texts of strings, non-negative integers and
\* objects of them.  Each parsing step gives the value read and the index after
\* it, or fails.
CharAt(s, i) == IF i \in 1..Len(s) THEN SubSeq(s, i, i) ELSE ""

ParseFail == [ok |-> FALSE, value |-> PyNone, next |-> 0]

RECURSIVE SkipSpace(_, _)
SkipSpace(s, i) == IF CharAt(s, i) = " " THEN SkipSpace(s, i + 1) ELSE i

\* the index of the next double quote from i on, 0 when there is none
RECURSIVE FindQuote(_, _)
FindQuote(s, i) ==
    IF i > Len(s) THEN 0
    ELSE IF CharAt(s, i) = "\"" THEN i ELSE FindQuote(s, i + 1)

\* the index after the digits that start at i
RECURSIVE DigitsEnd(_, _)
DigitsEnd(s, i) ==
    IF i <= Len(s) /\ IsDigits(CharAt(s, i)) THEN DigitsEnd(s, i + 1) ELSE i

ParseScalar(s, i) ==
    IF CharAt(s, i) = "\""
    THEN LET j == FindQuote(s, i + 1)
         IN  IF j = 0 THEN ParseFail
             ELSE [ok |-> TRUE, value |-> PyStr(SubSeq(s, i + 1, j - 1)), next |-> j + 1]
    ELSE LET j == DigitsEnd(s, i)
         IN  IF j = i \/ (j > i + 1 /\ CharAt(s, i) = "0") THEN ParseFail
             ELSE [ok |-> TRUE, value |-> PyInt(StrToInt(SubSeq(s, i, j - 1))), next |-> j]

\* the members of an object from i on, added to d; a repeated key keeps its
\* last value
RECURSIVE ParseMembers(_, _, _)
ParseMembers(s, i, d) ==
    IF CharAt(s, i) # "\"" THEN ParseFail
    ELSE LET k == FindQuote(s, i + 1)
             c == SkipSpace(s, k + 1)
             v == ParseScalar(s, SkipSpace(s, c + 1))
             n == SkipSpace(s, v.next)
             d2 == DictSet(d, SubSeq(s, i + 1, k - 1), v.value)
         IN  IF k = 0 \/ CharAt(s, c) # ":" THEN ParseFail
             ELSE IF ~v.ok THEN ParseFail
             ELSE IF CharAt(s, n) = "}"
                  THEN [ok |-> TRUE, value |-> PyDict(d2), next |-> n + 1]
             ELSE IF CharAt(s, n) = ","
                  THEN ParseMembers(s, SkipSpace(s, n + 1), d2)
             ELSE ParseFail

\* json.loads(s): the value, or JSONDecodeError when s is not one JSON text
json_loads(s) ==
    LET i == SkipSpace(s, 1)
        n == SkipSpace(s, i + 1)
        r == IF CharAt(s, i) # "{" THEN ParseScalar(s, i)
             ELSE IF CharAt(s, n) = "}"
                  THEN [ok |-> TRUE, value |-> PyDict(<<>>), next |-> n + 1]
             ELSE ParseMembers(s, n, <<>>)
    IN  IF r.ok /\ SkipSpace(s, r.next) = Len(s) + 1
        THEN [ok |-> TRUE, value |-> r.value]
        ELSE [ok |-> FALSE, value |-> PyNone]

\* the messages one call gets, and the argument values of their tool calls
MaxMessages == 2

\* the parts of a message; isinstance reads part_kind
TextPart(part_kind) == [part_kind |-> part_kind, content |-> "text"]
ToolCallPart(tool_name, args) ==
    [part_kind |-> "ToolCallPart", tool_name |-> tool_name, args |-> args]

\* a ModelRequest or a ModelResponse; isinstance reads kind
Message(kind, parts) == [kind |-> kind, parts |-> parts]

\* The messages a run may hold.  part.args of a ToolCallPart is a mapping, a
\* str holding JSON text as the model wrote it (complete or not), or None.
Messages ==
    { Message("ModelRequest", <<TextPart("UserPromptPart")>>),
      Message("ModelRequest",
              <<[part_kind |-> "ToolReturnPart", tool_name |-> "create_task_summary",
                 content |-> "Created"]>>),
      Message("ModelResponse", <<TextPart("TextPart")>>),
      Message("ModelResponse",
              <<TextPart("TextPart"),
                ToolCallPart("create_task_summary", PyStr("{\"a\": 1}")),
                ToolCallPart("other_tool", PyDict([a |-> PyInt(1)]))>>) }
    \cup { Message("ModelResponse", <<ToolCallPart("create_task_summary", args)>>) :
              args \in { PyDict([a |-> PyInt(1)]),
                         PyDict(<<>>),
                         PyStr("{\"a\": 1}"),
                         PyStr("{\"title\": \"retro\", \"n\": 12}"),
                         PyStr("{}"),
                         PyStr("{\"a\": "),
                         PyStr(""),
                         PyNone } }

\* the lists of at most n messages
RECURSIVE MessageLists(_)
MessageLists(n) ==
    IF n = 0 THEN {<<>>}
    ELSE MessageLists(n - 1)
             \cup { Append(l, m) : l \in MessageLists(n - 1), m \in Messages }

NoExtraction ==
    [pc |-> "idle", message |-> 0, part |-> 0, tool_calls |-> <<>>, exc |-> None]

\* extract_tool_calls(result) is called: `tool_calls = []`
CallExtract ==
    /\ extraction.pc = "idle"
    /\ extraction' = [NoExtraction EXCEPT !.pc = "for_message", !.message = 1]
    /\ UNCHANGED <<agui_vars, mutable_deps, tool_call, action_log, all_messages>>

\* `for message in result.all_messages():` and
\* `if isinstance(message, ModelResponse):`
ForMessage ==
    /\ extraction.pc = "for_message"
    /\ extraction' =
          IF extraction.message > Len(all_messages)
          THEN [extraction EXCEPT !.pc = "return"]
          ELSE IF all_messages[extraction.message].kind = "ModelResponse"
               THEN [extraction EXCEPT !.pc = "for_part", !.part = 1]
               ELSE [extraction EXCEPT !.message = @ + 1]
    /\ UNCHANGED <<agui_vars, mutable_deps, tool_call, action_log, all_messages>>

\* `for part in message.parts:` with its body: a ToolCallPart gives one entry,
\* its args decoded when they are a str
ForPart ==
    /\ extraction.pc = "for_part"
    /\ LET parts == all_messages[extraction.message].parts
           part == parts[extraction.part]
       IN  extraction' =
              IF extraction.part > Len(parts)
              THEN [extraction EXCEPT !.pc = "for_message", !.message = @ + 1]
              ELSE IF part.part_kind # "ToolCallPart"
                   THEN [extraction EXCEPT !.part = @ + 1]
              ELSE IF part.args.type = "str" /\ ~json_loads(part.args.str).ok
                   THEN [extraction EXCEPT !.pc = "raised", !.exc = "JSONDecodeError"]
              ELSE LET args == IF part.args.type = "str"
                               THEN json_loads(part.args.str).value
                               ELSE part.args
                   IN  [extraction EXCEPT
                           !.tool_calls = Append(@, [name |-> part.tool_name,
                                                     input |-> args]),
                           !.part = @ + 1]
    /\ UNCHANGED <<agui_vars, mutable_deps, tool_call, action_log, all_messages>>

\* `return tool_calls`
ReturnToolCalls ==
    /\ extraction.pc = "return"
    /\ extraction' = [extraction EXCEPT !.pc = "returned"]
    /\ UNCHANGED <<agui_vars, mutable_deps, tool_call, action_log, all_messages>>

\* the state in which no exercise has been run
ExercisesNotRun ==
    /\ mutable_deps = <<>>
    /\ tool_call = NoCall
    /\ action_log = <<>>
    /\ all_messages = <<>>
    /\ extraction = NoExtraction

-----------------------------------------------------------------------------
(* The specification *)

Init ==
    /\ _agent = NoAgent
    /\ create_count = 0
    /\ assign_count = 0
    /\ returned = {}
    /\ utc_day = FirstDay
    /\ utc_sec = 0
    /\ created_at = <<>>
    /\ rejected = {}
    /\ states = <<>>
    /\ apps = <<>>
    /\ runs = [r \in 1..MaxRuns |-> NoRun]
    /\ task = [t \in Tasks |-> IdleTask]
    /\ running = 0
    /\ call_log = <<>>
    /\ emitted = <<>>
    /\ ExercisesNotRun

Next ==
    \/ \E t \in Tasks : CallGetAgent(t)
    \/ \E t \in Tasks : CallCreateApp(t)
    \/ \E t \in Tasks : GetAgentTest(t)
    \/ \E t \in Tasks : GetAgentCreate(t)
    \/ \E t \in Tasks : GetAgentReturn(t)
    \/ \E t \in Tasks : CreateInitialState(t)
    \/ \E t \in Tasks : BuildApp(t)
    \/ \E t \in Tasks : Return(t)
    \/ \E r \in 1..MaxRuns, a \in 1..MaxApps : StartRun(r, a)
    \/ \E r \in 1..MaxRuns : EndRun(r)
    \/ \E t \in Tasks, r \in 1..MaxRuns, tool \in ToolNames :
          \E input_data \in CoreInputsOf(tool) : StartTool(t, r, tool, input_data)
    \/ \E t \in Tasks : Mark(t)
    \/ \E t \in Tasks : Execute(t)
    \/ \E t \in Tasks : AppendStep(t)
    \/ \E t \in Tasks : Clear(t)
    \/ \E t \in Tasks : Respond(t)
    \/ \E t \in Tasks : Returned(t)
    \/ \E t \in Tasks : Raised(t)

Spec == Init /\ [][Next]_vars

\* One app serving one request at a time, its adapters called with every
\* input of the input models: the specification for the message texts.
NextMessages ==
    \/ CallCreateApp(1)
    \/ GetAgentTest(1)
    \/ GetAgentCreate(1)
    \/ GetAgentReturn(1)
    \/ CreateInitialState(1)
    \/ BuildApp(1)
    \/ Return(1)
    \/ StartRun(1, 1)
    \/ EndRun(1)
    \/ \E tool \in ToolNames :
          \E input_data \in InputsOf(tool) : StartTool(1, 1, tool, input_data)
    \/ Mark(1)
    \/ Execute(1)
    \/ AppendStep(1)
    \/ Clear(1)
    \/ Respond(1)
    \/ Returned(1)
    \/ Raised(1)

SpecMessages == Init /\ [][NextMessages]_vars

-----------------------------------------------------------------------------
(* Tool calls with the arguments as the LLM gives them *)

\* the one input of CoreInputsOf(tool)
CoreInput(tool) == CHOOSE i \in CoreInputsOf(tool) : TRUE

\* arguments that conform: the input itself, and for the calendar adapter the
\* same with an action item that leaves its priority to the default
ValidArgsOf(tool) ==
    CoreInputsOf(tool) \cup
        (IF tool = "create_calendar_reminder"
         THEN { [CoreInput(tool) EXCEPT !["action_items"] =
                    << [task |-> "ship", owner |-> "ana"] >>] }
         ELSE {})

\* arguments that do not: a required field is missing, or a value lies
\* outside its enumeration
InvalidArgsOf(tool) ==
    CASE tool = "create_calendar_reminder" ->
            { Without(CoreInput(tool), "reminder_date"),
              [CoreInput(tool) EXCEPT !["meeting_type"] = "party"] }
      [] tool = "generate_incident_report" ->
            { Without(CoreInput(tool), "root_cause"),
              [CoreInput(tool) EXCEPT !["severity"] = "urgent"] }
      [] tool = "create_decision_record" ->
            { Without(CoreInput(tool), "decision_title"),
              [CoreInput(tool) EXCEPT !["status"] = "pending"] }

RawArgsOf(tool) == ValidArgsOf(tool) \cup InvalidArgsOf(tool)

\* the arguments validate: the input model is built and the adapter is called
\* with it
CallTool(t, r, tool, raw) ==
    /\ Validates(tool, raw)
    /\ StartTool(t, r, tool, BuildInput(tool, raw))

\* the arguments do not validate: no input model, so no call of the adapter
RejectCall(t, r, tool, raw) ==
    /\ Free(t)
    /\ runs[r].status = "active"
    /\ ~Validates(tool, raw)
    /\ rejected' = rejected \cup {[tool |-> tool, args |-> raw]}
    /\ UNCHANGED <<_agent, create_count, assign_count, returned, utc_day, utc_sec,
                   created_at, states, apps, runs, task, running, call_log, emitted,
                   exercise_vars>>

NextValidation ==
    \/ CallCreateApp(1)
    \/ GetAgentTest(1)
    \/ GetAgentCreate(1)
    \/ GetAgentReturn(1)
    \/ CreateInitialState(1)
    \/ BuildApp(1)
    \/ Return(1)
    \/ StartRun(1, 1)
    \/ EndRun(1)
    \/ \E tool \in ToolNames : \E raw \in RawArgsOf(tool) : CallTool(1, 1, tool, raw)
    \/ \E tool \in ToolNames : \E raw \in RawArgsOf(tool) : RejectCall(1, 1, tool, raw)
    \/ Mark(1)
    \/ Execute(1)
    \/ AppendStep(1)
    \/ Clear(1)
    \/ Respond(1)
    \/ Returned(1)
    \/ Raised(1)

SpecValidation == Init /\ [][NextValidation]_vars

-----------------------------------------------------------------------------
(* create_initial_state() under a running clock *)

\* the states one behaviour creates, and the days its clock advances
MaxStates == 2
MaxDays == 2

\* 2024-02-22 and 2025-02-22: a week on is 29 February in the leap year and
\* 1 March in the other
LeapYearDay == 19775
CommonYearDay == 20141

StartDays == {FirstDay, LeapYearDay, CommonYearDay}

\* the first second of a day, noon, and the last second
TimesOfDay == {0, 43200, SecondsPerDay - 1}

InitDates ==
    /\ _agent = NoAgent
    /\ create_count = 0
    /\ assign_count = 0
    /\ returned = {}
    /\ utc_day \in StartDays
    /\ utc_sec \in TimesOfDay
    /\ created_at = <<>>
    /\ rejected = {}
    /\ states = <<>>
    /\ apps = <<>>
    /\ runs = [r \in 1..MaxRuns |-> NoRun]
    /\ task = [t \in Tasks |-> IdleTask]
    /\ running = 0
    /\ call_log = <<>>
    /\ emitted = <<>>
    /\ ExercisesNotRun

\* time passes: to a later time of the day, or into the next day
TickClock ==
    /\ \E sec \in TimesOfDay :
          \/ /\ sec > utc_sec
             /\ utc_sec' = sec
             /\ utc_day' = utc_day
          \/ /\ \E d \in StartDays : utc_day + 1 - d \in 1..MaxDays
             /\ utc_sec' = sec
             /\ utc_day' = utc_day + 1
    /\ UNCHANGED <<_agent, create_count, assign_count, returned, created_at, rejected,
                   states, apps, runs, task, running, call_log, emitted,
                   exercise_vars>>

\* the host calls create_initial_state()
CallCreateInitialState ==
    /\ running = 0
    /\ Len(states) < MaxStates
    /\ states' = Append(states, create_initial_state(Now))
    /\ created_at' = Append(created_at, Now)
    /\ call_log' = Append(call_log, <<>>)
    /\ emitted' = Append(emitted, <<>>)
    /\ UNCHANGED <<_agent, create_count, assign_count, returned, utc_day, utc_sec,
                   rejected, apps, runs, task, running,
                   exercise_vars>>

NextDates ==
    \/ TickClock
    \/ CallCreateInitialState

SpecDates == InitDates /\ [][NextDates]_vars

-----------------------------------------------------------------------------
(* One app under a running clock: requests arrive any time after creation *)

InitContext ==
    /\ _agent = NoAgent
    /\ create_count = 0
    /\ assign_count = 0
    /\ returned = {}
    /\ utc_day = FirstDay
    /\ utc_sec \in TimesOfDay
    /\ created_at = <<>>
    /\ rejected = {}
    /\ states = <<>>
    /\ apps = <<>>
    /\ runs = [r \in 1..MaxRuns |-> NoRun]
    /\ task = [t \in Tasks |-> IdleTask]
    /\ running = 0
    /\ call_log = <<>>
    /\ emitted = <<>>
    /\ ExercisesNotRun

NextContext ==
    \/ TickClock
    \/ CallCreateApp(1)
    \/ GetAgentTest(1)
    \/ GetAgentCreate(1)
    \/ GetAgentReturn(1)
    \/ CreateInitialState(1)
    \/ BuildApp(1)
    \/ Return(1)
    \/ StartRun(1, 1)
    \/ EndRun(1)
    \/ AddDateContext(1, 1)
    \/ \E tool \in ToolNames :
          \E input_data \in CoreInputsOf(tool) : StartTool(1, 1, tool, input_data)
    \/ Mark(1)
    \/ Execute(1)
    \/ AppendStep(1)
    \/ Clear(1)
    \/ Respond(1)
    \/ Returned(1)
    \/ Raised(1)

SpecContext == InitContext /\ [][NextContext]_vars

-----------------------------------------------------------------------------
(* The exercises *)

\* demo_mutable_deps: MutableDeps objects and agent runs that call do_something
NextTracking ==
    \/ CreateDeps
    \/ \E d \in 1..MaxDeps, action \in Actions : CallDoSomething(d, action)
    \/ Increment
    \/ FormatResult
    \/ AppendToResults
    \/ ReturnResult
    \/ CallDone

SpecTracking == Init /\ [][NextTracking]_vars

\* extract_tool_calls applied to every list of messages
InitExtract ==
    /\ _agent = NoAgent
    /\ create_count = 0
    /\ assign_count = 0
    /\ returned = {}
    /\ utc_day = FirstDay
    /\ utc_sec = 0
    /\ created_at = <<>>
    /\ rejected = {}
    /\ states = <<>>
    /\ apps = <<>>
    /\ runs = [r \in 1..MaxRuns |-> NoRun]
    /\ task = [t \in Tasks |-> IdleTask]
    /\ running = 0
    /\ call_log = <<>>
    /\ emitted = <<>>
    /\ mutable_deps = <<>>
    /\ tool_call = NoCall
    /\ action_log = <<>>
    /\ all_messages \in MessageLists(MaxMessages)
    /\ extraction = NoExtraction

NextExtract ==
    \/ CallExtract
    \/ ForMessage
    \/ ForPart
    \/ ReturnToolCalls

SpecExtract == InitExtract /\ [][NextExtract]_vars

-----------------------------------------------------------------------------
(* Properties *)

ToolTask(t) == task[t].fn \in ToolNames

\* the adapter has come to its end: it returned, or an exception left it
Ended(t) == ToolTask(t) /\ task[t].pc \in {"returned", "raised"}

\* the executor reported a status, and it was not "success"
ReportedFailure(t) ==
    /\ "status" \in DOMAIN task[t].result
    /\ task[t].result["status"] # "success"

ReportedSuccess(t) ==
    /\ "status" \in DOMAIN task[t].result
    /\ task[t].result["status"] = "success"

\* the state object adapter t works on
StateIn(t) == states[task[t].state]

Last(seq) == seq[Len(seq)]

PrimaryTitle(tool, input_data) ==
    CASE tool = "create_calendar_reminder" -> input_data.meeting_title
      [] tool = "generate_incident_report" -> input_data.incident_title
      [] tool = "create_decision_record" -> input_data.decision_title

\* C2: on a "success" result the returned string holds the record's primary
\* title verbatim, and the count the adapter documents: the number of action
\* items (calendar), the number of options considered (decision).
C2_SuccessMessage ==
    \A t \in Tasks :
        (ToolTask(t) /\ task[t].pc = "returned" /\ ReportedSuccess(t)) =>
            LET msg == task[t].ret.return_value
                inp == task[t].input_data
            IN  /\ Contains(msg, PrimaryTitle(task[t].fn, inp))
                /\ task[t].fn = "create_calendar_reminder" =>
                      Contains(msg, IntToStr(Len(inp.action_items)) \o " action items")
                /\ task[t].fn = "create_decision_record" =>
                      Contains(msg, IntToStr(Len(inp.options_considered))
                                        \o " options considered")

C2_Witness ==
    \E t \in Tasks :
        /\ task[t].fn = "create_decision_record"
        /\ task[t].pc = "returned"
        /\ ReportedSuccess(t)
        /\ Len(task[t].input_data.options_considered) = 2
        /\ Contains(task[t].ret.return_value, "'Use queue'")

\* C3: on a "success" result create_calendar_reminder returns a message that
\* holds "<n> action items", n the length of action_items, and the record's
\* reminder_date; n = 3 gives "3 action items".
C3_ActionItemCount ==
    \A t \in Tasks :
        (task[t].fn = "create_calendar_reminder" /\ task[t].pc = "returned"
            /\ ReportedSuccess(t)) =>
            LET msg == task[t].ret.return_value
                n == Len(task[t].input_data.action_items)
            IN  /\ Contains(msg, IntToStr(n) \o " action items")
                /\ Contains(msg, task[t].input_data.reminder_date)
                /\ n = 3 => Contains(msg, "3 action items")

C3_Witness ==
    \E t \in Tasks :
        /\ task[t].fn = "create_calendar_reminder"
        /\ task[t].pc = "returned"
        /\ ReportedSuccess(t)
        /\ Len(task[t].input_data.action_items) = 3
        /\ Contains(task[t].ret.return_value, "3 action items")

FailedTo(tool) ==
    CASE tool = "create_calendar_reminder" -> "Failed to create calendar reminder: "
      [] tool = "generate_incident_report" -> "Failed to generate incident report: "
      [] tool = "create_decision_record" -> "Failed to create decision record: "

\* C4: on a result whose status is not "success" the returned string is the
\* adapter's "Failed to ...: " prefix followed by the result's message, or by
\* "Unknown error" when the result has no message key.
C4_FailureMessage ==
    \A t \in Tasks :
        (ToolTask(t) /\ task[t].pc = "returned" /\ ReportedFailure(t)) =>
            LET msg == task[t].ret.return_value
                res == task[t].result
            IN  /\ StartsWith(msg, "Failed to ")
                /\ msg = FailedTo(task[t].fn)
                            \o (IF "message" \in DOMAIN res THEN res["message"]
                                ELSE "Unknown error")

C4_Witness ==
    \E t \in Tasks :
        /\ task[t].fn = "create_decision_record"
        /\ task[t].pc = "returned"
        /\ ReportedFailure(t)
        /\ "message" \in DOMAIN task[t].result
        /\ task[t].ret.return_value = "Failed to create decision record: disk full"

\* C5: when the executor reports a status other than "success" the adapter
\* has called the executor once, returns normally, and leaves its changes in
\* place: the failed result is the last element of tool_results and
\* processing_status is "executing".
C5_FailureKept ==
    \A t \in Tasks :
        (Ended(t) /\ ReportedFailure(t)) =>
            /\ task[t].pc = "returned"
            /\ task[t].executed = <<ExecutorOf(task[t].fn)>>
            /\ StateIn(t).tool_results # <<>>
            /\ Last(StateIn(t).tool_results) = task[t].result
            /\ StateIn(t).processing_status = "executing"

C5_Witness ==
    \E t \in Tasks :
        /\ task[t].fn = "create_calendar_reminder"
        /\ task[t].pc = "returned"
        /\ ReportedFailure(t)
        /\ StateIn(t).tool_results = << [status |-> "success"], task[t].result >>

\* C6: a reported failure does not end the run: the adapter returns its
\* failure sentence with the run still active, and an adapter called later in
\* the same run calls its executor, appends that result and returns its own
\* message.
C6_RunGoesOn ==
    \A t \in Tasks :
        /\ (Ended(t) /\ ReportedFailure(t)) =>
              /\ task[t].pc = "returned"
              /\ runs[task[t].run].status = "active"
              /\ StartsWith(task[t].ret.return_value, "Failed to ")
        /\ (ToolTask(t) /\ task[t].pc = "returned" /\ task[t].failed_before = 1) =>
              /\ runs[task[t].run].status = "active"
              /\ task[t].executed = <<ExecutorOf(task[t].fn)>>
              /\ Last(StateIn(t).tool_results) = task[t].result
              /\ ReportedSuccess(t) => ~StartsWith(task[t].ret.return_value, "Failed to ")

C6_Witness ==
    \E t \in Tasks :
        /\ ToolTask(t)
        /\ task[t].pc = "returned"
        /\ task[t].failed_before = 1
        /\ ReportedSuccess(t)
        /\ StateIn(t).tool_results = << [status |-> "error"], [status |-> "success"] >>

\* the state as create_initial_state() makes it
IsInitial(state) ==
    /\ state.tool_results = <<>>
    /\ state.current_tool = None
    /\ state.processing_status = "idle"

Writers(s) ==
    { t \in Tasks : ToolTask(t) /\ task[t].state = s
                    /\ task[t].pc \in {"execute", "append", "clear"} }

\* C9: on every state object at most one adapter is between setting and
\* clearing current_tool, and current_tool is still the name it set: no other
\* adapter has written in between.
C9_OneWriter ==
    \A s \in 1..Len(states) :
        /\ Cardinality(Writers(s)) <= 1
        /\ \A t \in Writers(s) : states[s].current_tool = task[t].fn

\* an adapter of one request is between the two steps, on a state object that
\* holds the result of another request of the same app that is still running
C9_Witness ==
    \E t \in Tasks :
        /\ t \in Writers(task[t].state)
        /\ task[t].pc = "append"
        /\ task[t].len_before = 1
        /\ \E r \in 1..MaxRuns :
              /\ r # task[t].run
              /\ runs[r].status = "active"
              /\ runs[r].had_failure
              /\ StateOf(r) = task[t].state

\* the adapters that hold a result not yet appended to state object s
Pending(s) ==
    { t \in Tasks : ToolTask(t) /\ task[t].state = s /\ task[t].pc = "append" }

\* C10: tool_results holds the executors' results in call order: its i-th
\* element is the result of the i-th call that got one.
C10_ResultOrder ==
    \A s \in 1..Len(states) :
        /\ Len(states[s].tool_results) + Cardinality(Pending(s)) = Len(call_log[s])
        /\ \A i \in 1..Len(states[s].tool_results) :
              states[s].tool_results[i] = call_log[s][i]

C10_Witness ==
    \E s \in 1..Len(states) :
        /\ Len(states[s].tool_results) = 2
        /\ states[s].tool_results[1] # states[s].tool_results[2]
        /\ states[s].current_tool = None

\* the snapshots adapter t hands back with its message
SnapshotsOf(t) == task[t].ret.metadata

\* C11: an adapter that returns hands back its message with exactly one state
\* snapshot, and the snapshot is a full copy of the state at that moment: the
\* same fields, tool_results with the result just appended as last element,
\* and the state's dates, processing_status and current_tool.
C11_SnapshotAtReturn ==
    \A t \in Tasks :
        (ToolTask(t) /\ task[t].pc = "returned") =>
            /\ Len(task[t].ret.return_value) > 0
            /\ Len(SnapshotsOf(t)) = 1
            /\ SnapshotsOf(t)[1].type = "STATE_SNAPSHOT"
            /\ LET snap == SnapshotsOf(t)[1].snapshot
                   st == StateIn(t)
               IN  /\ DOMAIN snap = DOMAIN st
                   /\ snap.tool_results = st.tool_results
                   /\ Len(snap.tool_results) = task[t].len_before + 1
                   /\ Last(snap.tool_results) = task[t].result
                   /\ snap.current_date = st.current_date
                   /\ snap.one_week_from_now = st.one_week_from_now
                   /\ snap.processing_status = st.processing_status
                   /\ snap.current_tool = st.current_tool

C11_Witness ==
    \E t \in Tasks :
        /\ task[t].fn = "create_decision_record"
        /\ task[t].pc = "returned"
        /\ task[t].len_before = 1
        /\ Len(SnapshotsOf(t)[1].snapshot.tool_results) = 2
        /\ SnapshotsOf(t)[1].snapshot.tool_results[2] = [status |-> "error", message |-> "disk full"]

\* the year, month and day of a "YYYY-MM-DD" string
YearIn(s) == StrToInt(SubSeq(s, 1, 4))
MonthIn(s) == StrToInt(SubSeq(s, 6, 7))
DayIn(s) == StrToInt(SubSeq(s, 9, 10))

\* s is a calendar date written YYYY-MM-DD
IsDate(s) ==
    /\ Len(s) = 10
    /\ SubSeq(s, 5, 5) = "-"
    /\ SubSeq(s, 8, 8) = "-"
    /\ IsDigits(SubSeq(s, 1, 4)) /\ IsDigits(SubSeq(s, 6, 7)) /\ IsDigits(SubSeq(s, 9, 10))
    /\ MonthIn(s) \in 1..12
    /\ DayIn(s) \in 1..MonthLen(YearIn(s), MonthIn(s))

RECURSIVE DaysBeforeYear(_)
DaysBeforeYear(y) == IF y <= 1970 THEN 0 ELSE YearLen(y - 1) + DaysBeforeYear(y - 1)

RECURSIVE DaysBeforeMonth(_, _)
DaysBeforeMonth(y, m) == IF m <= 1 THEN 0 ELSE MonthLen(y, m - 1) + DaysBeforeMonth(y, m - 1)

\* the number of days from 1970-01-01 to the date s
DayNumber(s) == DaysBeforeYear(YearIn(s)) + DaysBeforeMonth(YearIn(s), MonthIn(s)) + DayIn(s) - 1

\* C12: in the state one create_initial_state() call returns, current_date is
\* the date of the clock reading, whatever its time of day, and
\* one_week_from_now is the calendar date exactly seven days later, both
\* written YYYY-MM-DD, across the ends of months and years too.
C12_WeekAhead ==
    \A s \in 1..Len(states) :
        /\ IsDate(states[s].current_date)
        /\ IsDate(states[s].one_week_from_now)
        /\ DayNumber(states[s].current_date) = created_at[s] \div SecondsPerDay
        /\ DayNumber(states[s].one_week_from_now) = DayNumber(states[s].current_date) + 7

\* a state made in the last second of 2025-12-28
C12_Witness ==
    \E s \in 1..Len(states) :
        /\ created_at[s] % SecondsPerDay = SecondsPerDay - 1
        /\ states[s].current_date = "2025-12-28"
        /\ states[s].one_week_from_now = "2026-01-04"

\* the calendar day (UTC) of the clock reading state object s was made from
CalendarDay(s) == created_at[s] \div SecondsPerDay

\* C13: two create_initial_state() calls made within the same calendar day
\* (of the UTC clock the function reads) return states with the same
\* current_date and the same one_week_from_now.
C13_SameDaySameDates ==
    \A i, j \in 1..Len(states) :
        CalendarDay(i) = CalendarDay(j) =>
            /\ states[i].current_date = states[j].current_date
            /\ states[i].one_week_from_now = states[j].one_week_from_now

\* two calls on one day, in its first and in its last second
C13_Witness ==
    \E i, j \in 1..Len(states) :
        /\ CalendarDay(i) = CalendarDay(j)
        /\ created_at[i] % SecondsPerDay = 0
        /\ created_at[j] % SecondsPerDay = SecondsPerDay - 1
        /\ states[i].current_date = states[j].current_date

GotResult(t) == ToolTask(t) /\ task[t].executed # <<>> /\ task[t].exc # "Exception"

\* the result of adapter t is in tool_results
Appended(t) ==
    GotResult(t) /\ task[t].pc \in {"clear", "respond", "returned", "raised"}

\* C15: an adapter calls its own executor (calendar: the CalendarTool,
\* incident: the IncidentTool, decision: the DecisionRecordTool) exactly once
\* and no other, passes it the dumped input record, and appends to
\* tool_results exactly the dict that call returned.
C15_OwnExecutorOnce ==
    \A t \in Tasks :
        /\ (ToolTask(t) /\ task[t].pc \in {"mark", "execute"}) => task[t].executed = <<>>
        /\ (ToolTask(t) /\ task[t].executed # <<>>) =>
              /\ Len(task[t].executed) = 1
              /\ ToolClass(task[t].executed[1]) =
                    (CASE task[t].fn = "create_calendar_reminder" -> "CalendarTool"
                       [] task[t].fn = "generate_incident_report" -> "IncidentTool"
                       [] task[t].fn = "create_decision_record" -> "DecisionRecordTool")
              /\ DOMAIN task[t].arg = DOMAIN task[t].input_data
              /\ \A k \in DOMAIN task[t].arg : task[t].arg[k] = task[t].input_data[k]
        /\ Appended(t) =>
              /\ Last(StateIn(t).tool_results) = task[t].result
              /\ Last(call_log[task[t].state]) = task[t].result
              /\ Len(StateIn(t).tool_results) = task[t].len_before + 1

C15_Witness ==
    \E t \in Tasks :
        /\ task[t].fn = "create_decision_record"
        /\ task[t].pc = "returned"
        /\ task[t].executed = << "_decision_tool" >>
        /\ task[t].arg["decision_title"] = "Use queue"
        /\ Last(StateIn(t).tool_results) = [status |-> "success"]

\* the statements of an adapter, in the order of its source
AdapterSteps == << "mark", "execute", "append", "clear", "respond" >>

IsPrefix(a, b) == Len(a) <= Len(b) /\ SubSeq(b, 1, Len(a)) = a

\* C16: every adapter invocation takes its steps in the one order (1) set
\* current_tool to its own name and processing_status to "executing", (2)
\* call the executor, (3) append the result, (4) clear current_tool, (5) build
\* message and snapshot.  The executor is called only while current_tool is
\* the calling adapter's name, and a snapshot is built only after the append
\* and the clear.
C16_StepOrder ==
    /\ [](\A t \in Tasks :
            ToolTask(t) =>
               /\ IsPrefix(task[t].steps, AdapterSteps)
               /\ task[t].pc = "returned" =>
                     /\ task[t].steps = AdapterSteps
                     /\ SnapshotsOf(t)[1].snapshot.current_tool = None
                     /\ Len(SnapshotsOf(t)[1].snapshot.tool_results) = task[t].len_before + 1)
    /\ [][\A t \in Tasks :
            Len(task'[t].executed) > Len(task[t].executed) =>
               /\ task[t].steps = << "mark" >>
               /\ states[task[t].state].current_tool = task[t].fn
               /\ states[task[t].state].processing_status = "executing"]_vars

C16_Witness ==
    \E t \in Tasks :
        /\ task[t].fn = "generate_incident_report"
        /\ task[t].pc = "returned"
        /\ task[t].steps = AdapterSteps
        /\ task[t].len_before = 1

\* C17: on a "success" result create_decision_record returns a message that
\* holds "<k> options considered", k the length of options_considered (k = 0
\* too), and "decision: <status>" with the record's status value.
C17_DecisionMessage ==
    \A t \in Tasks :
        (task[t].fn = "create_decision_record" /\ task[t].pc = "returned"
            /\ ReportedSuccess(t)) =>
            LET msg == task[t].ret.return_value
                k == Len(task[t].input_data.options_considered)
            IN  /\ Contains(msg, IntToStr(k) \o " options considered")
                /\ Contains(msg, "decision: " \o task[t].input_data.status)
                /\ task[t].input_data.status \in DecisionStatuses

C17_Witness ==
    \E t \in Tasks :
        /\ task[t].fn = "create_decision_record"
        /\ task[t].pc = "returned"
        /\ ReportedSuccess(t)
        /\ Len(task[t].input_data.options_considered) = 0
        /\ Contains(task[t].ret.return_value, "(0 options considered, decision: rejected)")

EndsWith(s, suffix) ==
    Len(suffix) <= Len(s) /\ SubSeq(s, Len(s) - Len(suffix) + 1, Len(s)) = suffix

\* the severity values in upper case
UpperSeverity(sev) ==
    CASE sev = "critical" -> "CRITICAL"
      [] sev = "high" -> "HIGH"
      [] sev = "medium" -> "MEDIUM"
      [] sev = "low" -> "LOW"

\* C18: on a "success" result generate_incident_report returns a message that
\* holds the severity in upper case and ends with the root cause cut to its
\* first 100 characters at most, followed by "..." whether or not anything was
\* cut off (a root cause under 100 characters, or empty, is given whole).
C18_IncidentMessage ==
    \A t \in Tasks :
        (task[t].fn = "generate_incident_report" /\ task[t].pc = "returned"
            /\ ReportedSuccess(t)) =>
            LET msg == task[t].ret.return_value
                cause == task[t].input_data.root_cause
                kept == IF Len(cause) > RootCauseCut THEN RootCauseCut ELSE Len(cause)
            IN  /\ Contains(msg, "(Severity: " \o UpperSeverity(task[t].input_data.severity) \o ")")
                /\ EndsWith(msg, "Root cause: " \o SubSeq(cause, 1, kept) \o "...")
                /\ Len(msg) <= Len("Generated incident report for '' (Severity: CRITICAL). Root cause: ...")
                                 + Len(task[t].input_data.incident_title) + RootCauseCut

\* a root cause of 104 characters, cut after the hundredth
C18_Witness ==
    \E t \in Tasks :
        /\ task[t].fn = "generate_incident_report"
        /\ task[t].pc = "returned"
        /\ ReportedSuccess(t)
        /\ Len(task[t].input_data.root_cause) > RootCauseCut
        /\ EndsWith(task[t].ret.return_value, "0123456789...")
        /\ Contains(task[t].ret.return_value, "(Severity: HIGH)")

\* C19: whatever dict the executor hands back, one without a status key
\* included, the adapter returns a message and raises nothing; a dict without
\* status gets the failure sentence.
C19_AnyResultGetsMessage ==
    \A t \in Tasks :
        GotResult(t) =>
            /\ task[t].exc = None
            /\ task[t].pc # "raised"
            /\ task[t].pc = "returned" =>
                  /\ Len(task[t].ret.return_value) > 0
                  /\ "status" \notin DOMAIN task[t].result =>
                        StartsWith(task[t].ret.return_value, "Failed to ")

\* the executor's dict had no status key: the adapter has appended it and
\* cleared current_tool, and then raised KeyError with no message built
C19_Witness ==
    \E t \in Tasks :
        /\ task[t].fn = "create_calendar_reminder"
        /\ task[t].pc = "raised"
        /\ task[t].exc = "KeyError"
        /\ task[t].result = [message |-> "no status"]
        /\ Last(StateIn(t).tool_results) = task[t].result
        /\ task[t].ret = <<>>

\* C20: in every state in which no adapter is running on a state object, its
\* current_tool is None - also after an invocation whose executor call raised.
C20_IdleMeansNoTool ==
    \A s \in 1..Len(states) :
        (\A t \in Tasks : ~(ToolTask(t) /\ task[t].state = s)) =>
            states[s].current_tool = None

\* the executor call of an adapter raised, the adapter is gone, and
\* current_tool still names it
C20_Witness ==
    \E s \in 1..Len(states) :
        /\ \A t \in Tasks : task[t].fn = "idle"
        /\ states[s].current_tool = "generate_incident_report"
        /\ states[s].processing_status = "executing"
        /\ Len(call_log[s]) = Len(states[s].tool_results)

\* the weekday of a YYYY-MM-DD date
WeekdayOfDate(s) == WeekdayNames[((DayNumber(s) + 3) % 7) + 1]

\* a call of add_date_context that has built its text
ContextTask(t) == task[t].fn = "add_date_context" /\ task[t].pc = "done"

\* C21: the weekday name add_date_context puts into the instructions is the
\* weekday of the state's current_date, for every request the app serves,
\* however long after the app was created.
C21_WeekdayOfCurrentDate ==
    \A t \in Tasks :
        ContextTask(t) =>
            LET state == states[task[t].state]
            IN  Contains(task[t].ret,
                         "Today is " \o WeekdayOfDate(state.current_date) \o ", "
                             \o state.current_date)

\* a request served on the day after the app was created
C21_Witness ==
    \E t \in Tasks :
        /\ ContextTask(t)
        /\ utc_day = CalendarDay(task[t].state) + 1
        /\ Contains(task[t].ret, "Today is " \o strftime_A(Now) \o ", "
                                     \o states[task[t].state].current_date)

\* an adapter call that has run its first two statements
Started(t) == ToolTask(t) /\ task[t].pc # "mark"

\* C22: processing_status is "idle" until the first adapter starts on the
\* state and "executing" from then on, for ever: a new state is "idle", the
\* only change is from "idle" to "executing" and it is made by an adapter's
\* first statements, nothing sets the field back; so every emitted snapshot
\* carries "executing" together with current_tool None.
C22_ExecutingForEver ==
    /\ [](\A t \in Tasks :
            /\ Started(t) => states[task[t].state].processing_status = "executing"
            /\ ToolTask(t) /\ task[t].pc = "returned" =>
                  \A i \in 1..Len(SnapshotsOf(t)) :
                      /\ SnapshotsOf(t)[i].snapshot.processing_status = "executing"
                      /\ SnapshotsOf(t)[i].snapshot.current_tool = None)
    /\ [](\A s \in 1..Len(states) :
            states[s].processing_status = "idle" => call_log[s] = <<>>)
    /\ [][\A s \in 1..Len(states') :
            IF s > Len(states)
            THEN states'[s].processing_status = "idle"
            ELSE \/ states'[s].processing_status = states[s].processing_status
                 \/ /\ states[s].processing_status = "idle"
                    /\ states'[s].processing_status = "executing"
                    /\ \E t \in Tasks :
                          /\ ToolTask(t)
                          /\ task[t].state = s
                          /\ task[t].pc = "mark"
                          /\ task'[t].pc = "execute"]_vars

\* the second adapter call on a state returns: the field has stayed
\* "executing" since the first call, and the snapshot shows it
C22_Witness ==
    \E t \in Tasks :
        /\ ToolTask(t)
        /\ task[t].pc = "returned"
        /\ task[t].len_before = 1
        /\ SnapshotsOf(t)[1].snapshot.processing_status = "executing"
        /\ SnapshotsOf(t)[1].snapshot.current_tool = None
        /\ states[task[t].state].processing_status = "executing"

\* C23: in every reachable state, current_tool is None or one of the three
\* adapter names, processing_status is "idle" or "executing", a current_tool
\* other than None comes with "executing", and "idle" comes with an empty
\* tool_results.
C23_StateInvariant ==
    \A s \in 1..Len(states) :
        /\ states[s].current_tool \in
              {None, "create_calendar_reminder", "generate_incident_report",
               "create_decision_record"}
        /\ states[s].processing_status \in {"idle", "executing"}
        /\ states[s].current_tool # None => states[s].processing_status = "executing"
        /\ states[s].processing_status = "idle" => states[s].tool_results = <<>>

\* an adapter is at work on a state that already holds a result
C23_Witness ==
    \E s \in 1..Len(states) :
        /\ states[s].current_tool = "create_decision_record"
        /\ states[s].processing_status = "executing"
        /\ Len(states[s].tool_results) = 1

\* C24: what the adapters and add_date_context leave alone.  No step removes,
\* reorders or replaces an element already in tool_results (a step keeps the
\* list or appends one element to it), no step changes current_date or
\* one_week_from_now, and a call of add_date_context changes no field of any
\* state.
C24_Frame ==
    [][/\ \A s \in 1..Len(states) :
            /\ IsPrefix(states[s].tool_results, states'[s].tool_results)
            /\ Len(states'[s].tool_results) <= Len(states[s].tool_results) + 1
            /\ states'[s].current_date = states[s].current_date
            /\ states'[s].one_week_from_now = states[s].one_week_from_now
       /\ (\E t \in Tasks : "add_date_context" \in {task[t].fn, task'[t].fn})
              => states' = states
      ]_vars

\* add_date_context has run on a later day, on a state that two adapter calls
\* have appended to: the state still has both results and the dates it was
\* created with
C24_Witness ==
    \E t \in Tasks :
        /\ ContextTask(t)
        /\ utc_day > CalendarDay(task[t].state)
        /\ Len(states[task[t].state].tool_results) = 2
        /\ states[task[t].state].tool_results = call_log[task[t].state]
        /\ states[task[t].state].current_date = "2025-12-28"
        /\ states[task[t].state].one_week_from_now = "2026-01-04"

Settled(d) == tool_call.pc \in {"idle", "returned"} \/ tool_call.deps # d

\* C26: after any sequence of do_something calls on one MutableDeps object,
\* call_count equals len(results), each call has increased both by exactly
\* one, and the k-th element of results is "Did: <action> (call #k)" for the
\* action of the k-th call.
C26_CountMatchesResults ==
    \A d \in 1..Len(mutable_deps) :
        /\ Settled(d) =>
              /\ mutable_deps[d].call_count = Len(mutable_deps[d].results)
              /\ mutable_deps[d].call_count = Len(action_log[d])
              /\ \A k \in 1..Len(action_log[d]) :
                    mutable_deps[d].results[k] =
                        "Did: " \o action_log[d][k] \o " (call #" \o IntToStr(k) \o ")"
        /\ tool_call.pc = "returned" /\ tool_call.deps = d =>
              /\ mutable_deps[d].call_count = tool_call.count_before + 1
              /\ Len(mutable_deps[d].results) = tool_call.len_before + 1

\* the third call on one object returns, after a call on another object
C26_Witness ==
    /\ tool_call.pc = "returned"
    /\ tool_call.deps = 1
    /\ mutable_deps[1].call_count = 3
    /\ mutable_deps[1].results[3] = "Did: task 1 (call #3)"
    /\ Len(mutable_deps) = 2
    /\ mutable_deps[2].results = <<"Did: a (call #1)">>

\* the tool-call parts of the model responses among the messages, in message
\* order and then part order
RECURSIVE AllToolCallParts(_)
AllToolCallParts(messages) ==
    IF messages = <<>> THEN <<>>
    ELSE LET message == Head(messages)
             own == IF message.kind = "ModelResponse"
                    THEN SelectSeq(message.parts,
                                   LAMBDA part : part.part_kind = "ToolCallPart")
                    ELSE <<>>
         IN  own \o AllToolCallParts(Tail(messages))

\* C27: extract_tool_calls returns exactly one {name, input} entry for every
\* tool-call part of a model response among the messages, in message order and
\* then part order, and none for any other message or part; args given as a
\* JSON str come back decoded, args given as a mapping come back as they are.
C27_OneEntryPerToolCall ==
    /\ extraction.pc # "raised"
    /\ extraction.pc = "returned" =>
          LET parts == AllToolCallParts(all_messages)
          IN  /\ Len(extraction.tool_calls) = Len(parts)
              /\ \A i \in 1..Len(parts) :
                    /\ DOMAIN extraction.tool_calls[i] = {"name", "input"}
                    /\ extraction.tool_calls[i].name = parts[i].tool_name
                    /\ extraction.tool_calls[i].input =
                          IF parts[i].args.type = "str"
                          THEN json_loads(parts[i].args.str).value
                          ELSE parts[i].args

\* the messages hold one tool call whose args are the empty str, and the call
\* has ended in JSONDecodeError with no list returned
C27_Witness ==
    /\ extraction.pc = "raised"
    /\ extraction.exc = "JSONDecodeError"
    /\ Len(AllToolCallParts(all_messages)) = 1
    /\ AllToolCallParts(all_messages)[1].args = PyStr("")

====
